---- MODULE Spec2Model ----
(***************************************************************************)
(* Model of the navigation core of pythonfileexplorer.                     *)
(*                                                                         *)
(* Part 1: TabHistoryManager (src/modules/tab_history_manager.py), the     *)
(* per-tab back/forward history keyed by widget id.                        *)
(*                                                                         *)
(* Part 2: UndoManager and its commands (src/modules/undo_manager.py,      *)
(* src/modules/undo_commands.py, src/modules/file_operations.py).          *)
(*                                                                         *)
(* Part 3: PinnedManager (src/modules/pinned_manager.py).                  *)
(*                                                                         *)
(* Part 4: the display tree of the PinnedPanel                             *)
(* (src/ui/panels/pinned_panel.py).                                        *)
(*                                                                         *)
(* Part 5: TabManager (src/ui/tab_manager.py), the tab lists and the       *)
(* history manager each TabManager owns.                                   *)
(*                                                                         *)
(* Paths are sequences of tokens in which every separator, dot and other   *)
(* special character is a token of its own, so that os.path.dirname,       *)
(* basename, join and splitext are computed on the path as posixpath       *)
(* computes them.                                                          *)
(* history_index is 0-based as in the source; TLA+ sequences are 1-based,  *)
(* so history[history_index] of the source is history[history_index + 1].  *)
(***************************************************************************)
EXTENDS Integers, Sequences, FiniteSets, TLC

VARIABLES
    tab_states,   \* TabHistoryManager.tab_states: widget id -> history state
    disk,         \* the set of paths for which os.path.exists is true
    op,           \* the last call made: method name and arguments
    ret,          \* the value the last call returned
    err,          \* the exception the last call raised, or NoError
    pre_index,    \* history_index of the last call's widget before that call
    dirs,         \* the paths of disk for which os.path.isdir is true
    undo_stack,   \* UndoManager._undo_stack, most recent last
    redo_stack,   \* UndoManager._redo_stack, most recent last
    pc,           \* the line UndoManager.push is about to execute, or Idle
    next_id,      \* the number of Command objects constructed so far
    pre,          \* filesystem and stacks as they were when the last call began
    pinned_items,   \* PinnedManager.pinned_items
    favorite_items, \* PinnedManager.favorite_items
    pinned_file,    \* the content of data/pinned_items.json
    events,         \* what the last PinnedManager call wrote and emitted
    pinned_tree,    \* PinnedPanel.pinned_tree: the nodes of the display tree
    tab_managers    \* the TabManager objects, the main one first

historyVars == <<tab_states, pre_index, tab_managers>>
undoVars == <<dirs, undo_stack, redo_stack, pc, next_id, pre>>
pinnedVars == <<pinned_items, favorite_items, pinned_file, pinned_tree>>

vars == <<tab_states, disk, op, ret, err, pre_index,
          dirs, undo_stack, redo_stack, pc, next_id, pre,
          pinned_items, favorite_items, pinned_file, events, pinned_tree,
          tab_managers>>

----------------------------------------------------------------------------
(* Bounds *)

\* The largest number of paths stored in all histories together.
MaxEntries == 3

----------------------------------------------------------------------------
(* Values *)

\* Python's None, as a widget argument and as the result of a procedure.
None == 0
NoneValue == <<"None">>

\* The widgets (tab contents) that callers pass as handles.
Widgets == {1, 2}
WidgetArgs == Widgets \cup {None}

\* The empty str, and an argument that is not a str.
EmptyStr == <<>>
NotAStr == <<"<int>">>

Root == <<"/">>
DirB == <<"/", "b">>
DirBC == <<"/", "b", "/", "c">>
RelC == <<"c">>

\* The paths callers pass to init_tab_history and push_path.
PathArgs == {DirBC, DirB, RelC, EmptyStr, NotAStr}

\* The filesystem root always exists; /b comes and goes.
VolatilePaths == {DirB}

NoError == "NoError"
ValueError == "ValueError"
TypeError == "TypeError"

----------------------------------------------------------------------------
(* Python helpers *)

isinstance_str(p) == p # NotAStr

\* dict[k] = v
DictSet(d, k, v) == [x \in (DOMAIN d) \cup {k} |-> IF x = k THEN v ELSE d[x]]

\* del dict[k] / dict.pop(k, None)
DictDel(d, k) == [x \in (DOMAIN d) \ {k} |-> d[x]]

EmptyDict == [x \in {} |-> 0]

\* str.rfind("/") + 1: the length of the prefix ending at the last separator.
RECURSIVE rfind_sep(_, _)
rfind_sep(p, i) ==
    IF i = 0 THEN 0
    ELSE IF p[i] = "/" THEN i
    ELSE rfind_sep(p, i - 1)

\* str.rstrip("/")
RECURSIVE rstrip_sep(_)
rstrip_sep(s) ==
    IF s = <<>> THEN s
    ELSE IF s[Len(s)] = "/" THEN rstrip_sep(SubSeq(s, 1, Len(s) - 1))
    ELSE s

AllSep(s) == \A k \in 1..Len(s) : s[k] = "/"

\* os.path.dirname (posixpath)
dirname(p) ==
    LET head == SubSeq(p, 1, rfind_sep(p, Len(p)))
    IN  IF head # <<>> /\ ~AllSep(head) THEN rstrip_sep(head) ELSE head

\* os.path.exists
exists(d, p) == p \in d

----------------------------------------------------------------------------
(* TabHistoryManager: each method is an operator from the dictionary and   *)
(* the arguments to the new dictionary, the return value and the error.    *)

Return(ts, value) == [ts |-> ts, ret |-> value, err |-> NoError]
Raise(ts, error) == [ts |-> ts, ret |-> NoneValue, err |-> error]

\* A key that is not unique per widget (every widget shares one entry).
_get_widget_id_shared(widget) == 1

\* id(widget): distinct live widgets have distinct ids.
_get_widget_id(widget) == widget

\* init_tab_history without the check for an empty initial_path.
init_tab_history_unchecked(ts, widget, initial_path) ==
    IF widget = None THEN Raise(ts, ValueError)
    ELSE IF ~isinstance_str(initial_path) THEN Raise(ts, TypeError)
    ELSE Return(DictSet(ts, _get_widget_id(widget),
                        [history |-> <<initial_path>>, history_index |-> 0]),
                NoneValue)

init_tab_history(ts, widget, initial_path) ==
    IF widget = None THEN Raise(ts, ValueError)
    ELSE IF ~isinstance_str(initial_path) THEN Raise(ts, TypeError)
    ELSE IF initial_path = EmptyStr THEN Raise(ts, ValueError)
    ELSE Return(DictSet(ts, _get_widget_id(widget),
                        [history |-> <<initial_path>>, history_index |-> 0]),
                NoneValue)

\* remove_tab_history that rewinds the entry instead of deleting it.
remove_tab_history_rewind(ts, widget) ==
    IF widget = None THEN Raise(ts, ValueError)
    ELSE IF _get_widget_id(widget) \notin DOMAIN ts THEN Return(ts, NoneValue)
    ELSE Return(DictSet(ts, _get_widget_id(widget),
                        [ts[_get_widget_id(widget)]
                            EXCEPT !.history_index = 0]),
                NoneValue)

remove_tab_history(ts, widget) ==
    IF widget = None THEN Raise(ts, ValueError)
    ELSE Return(DictDel(ts, _get_widget_id(widget)), NoneValue)

get_current_path(ts, widget) ==
    IF widget = None THEN EmptyStr
    ELSE IF _get_widget_id(widget) \notin DOMAIN ts THEN EmptyStr
    ELSE LET state == ts[_get_widget_id(widget)]
         IN  IF 0 <= state.history_index
                /\ state.history_index < Len(state.history)
             THEN state.history[state.history_index + 1]
             ELSE EmptyStr

\* push_path that appends without discarding the forward entries.
push_path_no_truncate(ts, widget, new_path) ==
    IF widget = None THEN Raise(ts, ValueError)
    ELSE IF ~isinstance_str(new_path) THEN Raise(ts, TypeError)
    ELSE IF new_path = EmptyStr THEN Raise(ts, ValueError)
    ELSE IF _get_widget_id(widget) \notin DOMAIN ts
         THEN init_tab_history(ts, widget, new_path)
    ELSE LET state == ts[_get_widget_id(widget)]
         IN  Return(DictSet(ts, _get_widget_id(widget),
                            [history |-> Append(state.history, new_path),
                             history_index |-> state.history_index + 1]),
                    NoneValue)

push_path(ts, widget, new_path) ==
    IF widget = None THEN Raise(ts, ValueError)
    ELSE IF ~isinstance_str(new_path) THEN Raise(ts, TypeError)
    ELSE IF new_path = EmptyStr THEN Raise(ts, ValueError)
    ELSE IF _get_widget_id(widget) \notin DOMAIN ts
         THEN init_tab_history(ts, widget, new_path)
    ELSE LET state == ts[_get_widget_id(widget)]
             current_i == state.history_index
             kept == SubSeq(state.history, 1, current_i + 1)
         IN  Return(DictSet(ts, _get_widget_id(widget),
                            [history |-> Append(kept, new_path),
                             history_index |-> current_i + 1]),
                    NoneValue)

\* go_back that looks the widget up without the check for a missing entry.
go_back_key_error(ts, widget) ==
    IF widget = None THEN Return(ts, EmptyStr)
    ELSE IF _get_widget_id(widget) \notin DOMAIN ts THEN Raise(ts, "KeyError")
    ELSE LET wid == _get_widget_id(widget)
             state == ts[wid]
             ts2 == IF state.history_index > 0
                    THEN DictSet(ts, wid,
                                 [state EXCEPT !.history_index = @ - 1])
                    ELSE ts
         IN  Return(ts2, get_current_path(ts2, widget))

go_back(ts, widget) ==
    IF widget = None THEN Return(ts, EmptyStr)
    ELSE IF _get_widget_id(widget) \notin DOMAIN ts THEN Return(ts, EmptyStr)
    ELSE LET wid == _get_widget_id(widget)
             state == ts[wid]
             ts2 == IF state.history_index > 0
                    THEN DictSet(ts, wid,
                                 [state EXCEPT !.history_index = @ - 1])
                    ELSE ts
         IN  Return(ts2, get_current_path(ts2, widget))

\* go_forward without the check for the end of the history.
go_forward_unclamped(ts, widget) ==
    IF widget = None THEN Return(ts, EmptyStr)
    ELSE IF _get_widget_id(widget) \notin DOMAIN ts THEN Return(ts, EmptyStr)
    ELSE LET wid == _get_widget_id(widget)
             ts2 == DictSet(ts, wid,
                            [ts[wid] EXCEPT !.history_index = @ + 1])
         IN  Return(ts2, get_current_path(ts2, widget))

\* go_forward whose end-of-history check is off by one.
go_forward_off_by_one(ts, widget) ==
    IF widget = None THEN Return(ts, EmptyStr)
    ELSE IF _get_widget_id(widget) \notin DOMAIN ts THEN Return(ts, EmptyStr)
    ELSE LET wid == _get_widget_id(widget)
             state == ts[wid]
         IN  IF state.history_index < Len(state.history) - 2
             THEN LET ts2 == DictSet(ts, wid,
                                 [state EXCEPT !.history_index = @ + 1])
                  IN  Return(ts2, get_current_path(ts2, widget))
             ELSE Return(ts, EmptyStr)

go_forward(ts, widget) ==
    IF widget = None THEN Return(ts, EmptyStr)
    ELSE IF _get_widget_id(widget) \notin DOMAIN ts THEN Return(ts, EmptyStr)
    ELSE LET wid == _get_widget_id(widget)
             state == ts[wid]
         IN  IF state.history_index < Len(state.history) - 1
             THEN LET ts2 == DictSet(ts, wid,
                                 [state EXCEPT !.history_index = @ + 1])
                  IN  Return(ts2, get_current_path(ts2, widget))
             ELSE Return(ts, EmptyStr)

\* go_up that does not ask whether the parent exists on disk.
go_up_no_exists(ts, d, widget) ==
    IF widget = None THEN Return(ts, EmptyStr)
    ELSE LET current_path == get_current_path(ts, widget)
         IN  IF current_path = EmptyStr THEN Return(ts, EmptyStr)
             ELSE LET parent_dir == dirname(current_path)
                  IN  IF parent_dir # EmptyStr
                      THEN LET r == push_path(ts, widget, parent_dir)
                           IN  IF r.err = NoError
                               THEN Return(r.ts, parent_dir)
                               ELSE r
                      ELSE Return(ts, EmptyStr)

go_up(ts, d, widget) ==
    IF widget = None THEN Return(ts, EmptyStr)
    ELSE LET current_path == get_current_path(ts, widget)
         IN  IF current_path = EmptyStr THEN Return(ts, EmptyStr)
             ELSE LET parent_dir == dirname(current_path)
                  IN  IF parent_dir # EmptyStr /\ exists(d, parent_dir)
                      THEN LET r == push_path(ts, widget, parent_dir)
                           IN  IF r.err = NoError
                               THEN Return(r.ts, parent_dir)
                               ELSE r
                      ELSE Return(ts, EmptyStr)

\* migrate_history that copies the entry and leaves the source in place.
migrate_history_keep_source(ts, source_widget, target_widget) ==
    IF source_widget = None \/ target_widget = None
    THEN Raise(ts, ValueError)
    ELSE LET source_id == _get_widget_id(source_widget)
             target_id == _get_widget_id(target_widget)
         IN  IF source_id \in DOMAIN ts
             THEN Return(DictSet(ts, target_id,
                             [history |-> ts[source_id].history,
                              history_index |-> ts[source_id].history_index]),
                         NoneValue)
             ELSE Return(ts, NoneValue)

migrate_history(ts, source_widget, target_widget) ==
    IF source_widget = None \/ target_widget = None
    THEN Raise(ts, ValueError)
    ELSE LET source_id == _get_widget_id(source_widget)
             target_id == _get_widget_id(target_widget)
         IN  IF source_id \in DOMAIN ts
             THEN Return(DictDel(DictSet(ts, target_id,
                             [history |-> ts[source_id].history,
                              history_index |-> ts[source_id].history_index]),
                           source_id),
                         NoneValue)
             ELSE Return(ts, NoneValue)

----------------------------------------------------------------------------
(* The state machine: one action per call of a method.                     *)

RECURSIVE StoredPaths(_, _)
StoredPaths(ts, S) ==
    IF S = {} THEN 0
    ELSE LET k == CHOOSE x \in S : TRUE
         IN  Len(ts[k].history) + StoredPaths(ts, S \ {k})

WithinBound(ts) == StoredPaths(ts, DOMAIN ts) <= MaxEntries

Call(name, widget, target, path) ==
    [name |-> name, widget |-> widget, target |-> target, path |-> path]

\* history_index of a widget's entry, -1 when it has none.
IndexOf(ts, widget) ==
    IF widget # None /\ _get_widget_id(widget) \in DOMAIN ts
    THEN ts[_get_widget_id(widget)].history_index
    ELSE -1

\* The effect of a call with result r on the state.
Apply(call, r) ==
    /\ WithinBound(r.ts)
    /\ tab_states' = r.ts
    /\ ret' = r.ret
    /\ err' = r.err
    /\ op' = call
    /\ pre_index' = IndexOf(tab_states, call.widget)
    /\ UNCHANGED <<disk, undoVars, pinnedVars, events, tab_managers>>

InitTabHistory ==
    \E w \in WidgetArgs, p \in PathArgs :
        Apply(Call("init_tab_history", w, None, p),
              init_tab_history(tab_states, w, p))

RemoveTabHistory ==
    \E w \in WidgetArgs :
        Apply(Call("remove_tab_history", w, None, EmptyStr),
              remove_tab_history(tab_states, w))

GetCurrentPath ==
    \E w \in WidgetArgs :
        Apply(Call("get_current_path", w, None, EmptyStr),
              Return(tab_states, get_current_path(tab_states, w)))

PushPath ==
    \E w \in WidgetArgs, p \in PathArgs :
        Apply(Call("push_path", w, None, p),
              push_path(tab_states, w, p))

GoBack ==
    \E w \in WidgetArgs :
        Apply(Call("go_back", w, None, EmptyStr), go_back(tab_states, w))

GoForward ==
    \E w \in WidgetArgs :
        Apply(Call("go_forward", w, None, EmptyStr),
              go_forward(tab_states, w))

GoUp ==
    \E w \in WidgetArgs :
        Apply(Call("go_up", w, None, EmptyStr), go_up(tab_states, disk, w))

MigrateHistory ==
    \E s \in WidgetArgs, t \in WidgetArgs :
        Apply(Call("migrate_history", s, t, EmptyStr),
              migrate_history(tab_states, s, t))

\* The environment creates or deletes a directory between two calls.
FsChange ==
    \E p \in VolatilePaths :
        /\ disk' = IF p \in disk THEN disk \ {p} ELSE disk \cup {p}
        /\ op' = Call("fs_change", None, None, p)
        /\ ret' = NoneValue
        /\ err' = NoError
        /\ pre_index' = -1
        /\ events' = <<>>
        /\ UNCHANGED <<tab_states, undoVars, pinnedVars, tab_managers>>

\* The state of the UndoManager and of the PinnedManager after construction
\* with no pinned file on disk.
NoFile == [format |-> "no file", pinned |-> <<>>, favorites |-> <<>>]
Idle == "idle"
NoSnapshot == [disk |-> {}, dirs |-> {}, undo_stack |-> <<>>,
               redo_stack |-> <<>>]

InitUndoManager ==
    /\ undo_stack = <<>>
    /\ redo_stack = <<>>
    /\ pc = Idle
    /\ next_id = 0
    /\ pre = NoSnapshot

InitPinnedManager ==
    /\ pinned_items = {}
    /\ favorite_items = {}
    /\ pinned_file = NoFile
    /\ events = <<>>

\* The data of a heading node: it carries no path.
NoPath == <<"heading">>

\* A node of the tree: its path, the index of its parent node (0 for a
\* top-level node) and the time it was attached there, which orders it
\* among its siblings.
Node(path, parent, stamp) == [path |-> path, parent |-> parent, stamp |-> stamp]

\* The tree with only the two headings "Favorites" and "Pinned Items".
favorites_root == 1
pinned_root == 2
Headings == [nodes |-> <<Node(NoPath, 0, 1), Node(NoPath, 0, 2)>>, clock |-> 2]

InitPinnedPanel == pinned_tree = Headings

\* TabManager.__init__: no tabs, a history manager of its own, and whether a
\* MainWindowContainer is found above the widget.
TabManager__init__(original, container) ==
    [tabs |-> <<>>, current_index |-> -1, history_manager |-> EmptyDict,
     original_tab_manager |-> original, container |-> container]

\* The main window holds one TabManager.
InitTabManagers == tab_managers = <<TabManager__init__(None, TRUE)>>

InitHistory ==
    /\ tab_states = EmptyDict
    /\ disk = {Root}
    /\ dirs = {Root}
    /\ op = Call("__init__", None, None, EmptyStr)
    /\ ret = NoneValue
    /\ err = NoError
    /\ pre_index = -1
    /\ InitUndoManager
    /\ InitPinnedManager
    /\ InitPinnedPanel
    /\ InitTabManagers

NextHistory ==
    \/ InitTabHistory
    \/ RemoveTabHistory
    \/ GetCurrentPath
    \/ PushPath
    \/ GoBack
    \/ GoForward
    \/ GoUp
    \/ MigrateHistory
    \/ FsChange

SpecHistory == InitHistory /\ [][NextHistory]_vars

----------------------------------------------------------------------------
(* Properties of TabHistoryManager *)

HasEntry(ts, widget) == widget \in DOMAIN ts

\* C1: every widget that has an entry has a non-empty history list and
\* 0 <= history_index < len(history).
C1_IndexInvariant ==
    \A k \in DOMAIN tab_states :
        /\ tab_states[k].history # <<>>
        /\ 0 <= tab_states[k].history_index
        /\ tab_states[k].history_index < Len(tab_states[k].history)

\* go_forward has just moved a widget to the last of several entries.
C1_Witness ==
    /\ op.name = "go_forward"
    /\ HasEntry(tab_states, op.widget)
    /\ pre_index >= 0
    /\ tab_states[op.widget].history_index = pre_index + 1
    /\ tab_states[op.widget].history_index
           = Len(tab_states[op.widget].history) - 1

\* C2: push_path(h, p) on a widget with history H and index i leaves the
\* history H[0..i] followed by p with index i + 1, the last position; a
\* go_forward right after a push_path returns the empty string and moves
\* nothing.
C2_PushTruncates ==
    [][/\ \A w \in Widgets :
            (/\ op'.name = "push_path"
             /\ op'.widget = w
             /\ err' = NoError
             /\ HasEntry(tab_states, w))
            => LET H == tab_states[w].history
                   i == tab_states[w].history_index
                   H2 == tab_states'[w].history
               IN  /\ Len(H2) = i + 2
                   /\ \A k \in 1..(i + 1) : H2[k] = H[k]
                   /\ H2[i + 2] = op'.path
                   /\ tab_states'[w].history_index = i + 1
                   /\ tab_states'[w].history_index = Len(H2) - 1
       /\ (/\ op.name = "push_path"
           /\ err = NoError
           /\ op'.name = "go_forward"
           /\ op'.widget = op.widget)
          => /\ ret' = EmptyStr
             /\ tab_states' = tab_states
      ]_vars

\* push_path has appended to a widget that already had an entry.
C2_Witness ==
    /\ op.name = "push_path"
    /\ err = NoError
    /\ pre_index = 0
    /\ HasEntry(tab_states, op.widget)
    /\ tab_states[op.widget].history_index = 1
    /\ Len(tab_states[op.widget].history) = 2
    /\ tab_states[op.widget].history[2] = op.path

\* C3: go_back on a widget whose index is 0 returns the empty string and
\* leaves history and index unchanged; with index > 0 it decrements the
\* index and returns the path now at the index.
C3_GoBackAtFirstReturnsEmpty ==
    [][\A w \in Widgets :
          (/\ op'.name = "go_back"
           /\ op'.widget = w
           /\ HasEntry(tab_states, w))
          => IF tab_states[w].history_index = 0
             THEN /\ ret' = EmptyStr
                  /\ tab_states' = tab_states
             ELSE /\ tab_states'[w].history = tab_states[w].history
                  /\ tab_states'[w].history_index
                         = tab_states[w].history_index - 1
                  /\ ret' = tab_states[w].history[tab_states[w].history_index]
      ]_vars

\* C4: go_back from an index > 0 followed at once by go_forward on the same
\* widget restores the index and the current path, go_forward returns that
\* path, and neither call changes the history list.
C4_BackForwardRoundTrip ==
    [][\A w \in Widgets :
          /\ (/\ op'.name = "go_back"
              /\ op'.widget = w
              /\ HasEntry(tab_states, w))
             => /\ HasEntry(tab_states', w)
                /\ tab_states'[w].history = tab_states[w].history
          /\ (/\ op.name = "go_back"
              /\ op.widget = w
              /\ pre_index > 0
              /\ op'.name = "go_forward"
              /\ op'.widget = w)
             => /\ HasEntry(tab_states', w)
                /\ tab_states'[w].history = tab_states[w].history
                /\ tab_states'[w].history_index = pre_index
                /\ ret' = tab_states[w].history[pre_index + 1]
                /\ get_current_path(tab_states', w) = ret'
      ]_vars

\* go_forward has undone a go_back that had moved the index.
C4_Witness ==
    /\ op.name = "go_forward"
    /\ HasEntry(tab_states, op.widget)
    /\ pre_index = 0
    /\ tab_states[op.widget].history_index = 1
    /\ Len(tab_states[op.widget].history) = 3
    /\ ret = tab_states[op.widget].history[2]

\* C5: migrate_history(s, t) with s # t and s holding an entry gives t
\* the history list and index of s, whatever t held, and removes the
\* entry of s; go_back and go_forward on t then move from that index.
C5_MigrateMoves ==
    [][\A s \in Widgets, t \in Widgets :
          /\ (/\ op'.name = "migrate_history"
              /\ op'.widget = s
              /\ op'.target = t
              /\ s # t
              /\ HasEntry(tab_states, s))
             => /\ err' = NoError
                /\ HasEntry(tab_states', t)
                /\ tab_states'[t].history = tab_states[s].history
                /\ tab_states'[t].history_index = tab_states[s].history_index
                /\ ~HasEntry(tab_states', s)
                /\ get_current_path(tab_states', s) = EmptyStr
          /\ (/\ op.name = "migrate_history"
              /\ op.widget = s
              /\ op.target = t
              /\ s # t
              /\ pre_index >= 0)
             => /\ tab_states[t].history_index = pre_index
                /\ (op'.name = "go_back" /\ op'.widget = t)
                   => tab_states'[t].history_index
                          = (IF pre_index > 0 THEN pre_index - 1 ELSE 0)
                /\ (op'.name = "go_forward" /\ op'.widget = t)
                   => tab_states'[t].history_index
                          = (IF pre_index < Len(tab_states[t].history) - 1
                             THEN pre_index + 1 ELSE pre_index)
      ]_vars

\* An entry of two paths positioned on the second has been migrated.
C5_Witness ==
    /\ op.name = "migrate_history"
    /\ op.widget # op.target
    /\ pre_index = 1
    /\ ~HasEntry(tab_states, op.widget)
    /\ HasEntry(tab_states, op.target)
    /\ tab_states[op.target].history_index = 1

\* The parent directory of each path of the model, written out.
ParentOf(p) ==
    CASE p = DirBC -> DirB
      [] p = DirB -> Root
      [] p = Root -> Root
      [] OTHER -> EmptyStr

\* C6: go_up pushes the parent of the current path and returns it when the
\* parent is non-empty and exists on disk; otherwise (no entry, no parent,
\* parent missing) it returns the empty string and changes nothing.
C6_GoUp ==
    [][\A w \in WidgetArgs :
          (op'.name = "go_up" /\ op'.widget = w)
          => LET parent == ParentOf(get_current_path(tab_states, w))
             IN  IF /\ HasEntry(tab_states, w)
                    /\ parent # EmptyStr
                    /\ parent \in disk
                 THEN LET H == tab_states[w].history
                          i == tab_states[w].history_index
                      IN  /\ ret' = parent
                          /\ tab_states'[w].history
                                 = Append(SubSeq(H, 1, i + 1), parent)
                          /\ tab_states'[w].history_index = i + 1
                          /\ get_current_path(tab_states', w) = parent
                          /\ tab_states' = push_path(tab_states, w, parent).ts
                 ELSE /\ ret' = EmptyStr
                      /\ tab_states' = tab_states
      ]_vars

\* go_up has moved from /b/c to the existing directory /b.
C6_Witness ==
    /\ op.name = "go_up"
    /\ ret = DirB
    /\ HasEntry(tab_states, op.widget)
    /\ tab_states[op.widget].history_index = pre_index + 1
    /\ get_current_path(tab_states, op.widget) = DirB
    /\ tab_states[op.widget].history[pre_index + 1] = DirBC

\* C7: remove_tab_history deletes the widget's entry and only that, and is
\* a no-op without one; afterwards get_current_path is empty, and push_path
\* on a widget without an entry creates the entry init_tab_history creates.
C7_LifeCycle ==
    [][\A w \in Widgets :
          /\ (op'.name = "remove_tab_history" /\ op'.widget = w)
             => /\ err' = NoError
                /\ ~HasEntry(tab_states', w)
                /\ get_current_path(tab_states', w) = EmptyStr
                /\ (~HasEntry(tab_states, w) => tab_states' = tab_states)
          /\ (/\ op.name = "remove_tab_history"
              /\ op.widget = w
              /\ op'.name = "get_current_path"
              /\ op'.widget = w)
             => ret' = EmptyStr
          /\ (/\ op'.name = "push_path"
              /\ op'.widget = w
              /\ err' = NoError
              /\ ~HasEntry(tab_states, w))
             => /\ tab_states'[w]
                       = [history |-> <<op'.path>>, history_index |-> 0]
                /\ tab_states'
                       = init_tab_history(tab_states, w, op'.path).ts
      ]_vars

\* An entry positioned past its first path has been removed.
C7_Witness ==
    /\ op.name = "remove_tab_history"
    /\ op.widget # None
    /\ pre_index >= 1
    /\ ~HasEntry(tab_states, op.widget)

\* The entry of widget k is the same before and after the step.
SameEntry(k) ==
    /\ HasEntry(tab_states, k) <=> HasEntry(tab_states', k)
    /\ HasEntry(tab_states, k) => tab_states'[k] = tab_states[k]

C9_InvalidArguments ==
    [][(\/ /\ op'.name \in {"init_tab_history", "push_path"}
           /\ (op'.widget = None \/ op'.path = EmptyStr)
        \/ /\ op'.name = "migrate_history"
           /\ (op'.widget = None \/ op'.target = None))
       => /\ err' # NoError
          /\ tab_states' = tab_states
      ]_vars

\* init_tab_history with an empty path was refused on an existing entry.
C9_Witness ==
    /\ op.name = "init_tab_history"
    /\ op.widget # None
    /\ op.path = EmptyStr
    /\ err = ValueError
    /\ pre_index >= 1
    /\ HasEntry(tab_states, op.widget)

\* C10: get_current_path, go_back, go_forward and go_up on None or on a
\* widget without an entry return the empty string, raise nothing and
\* leave tab_states as it was.
C10_NotFoundIsBenign ==
    [][(/\ op'.name \in {"get_current_path", "go_back", "go_forward",
                         "go_up"}
        /\ ~HasEntry(tab_states, op'.widget))
       => /\ ret' = EmptyStr
          /\ err' = NoError
          /\ tab_states' = tab_states
      ]_vars

\* go_back was called on a widget without an entry while another has one.
C10_Witness ==
    /\ op.name = "go_back"
    /\ op.widget # None
    /\ ~HasEntry(tab_states, op.widget)
    /\ tab_states # EmptyDict
    /\ ret = EmptyStr

----------------------------------------------------------------------------
(* Part 2: file operations, commands and the UndoManager                   *)

\* The largest number of commands constructed and pushed in one run.
MaxCommands == 3

DirA == <<"/", "a">>
OldTxt == <<"old", ".", "txt">>
NewTxt == <<"new", ".", "txt">>
\* A name that POSIX filesystems accept and rename_item refuses.
QueryName == <<"q", "?">>

InvalidChars == {"<", ">", ":", "\"", "/", "\\", "|", "?", "*"}

NotImplementedError == "NotImplementedError"

\* os.path.join (posixpath) of two components
join(a, b) ==
    IF b # <<>> /\ b[1] = "/" THEN b
    ELSE IF a = <<>> \/ a[Len(a)] = "/" THEN a \o b
    ELSE a \o <<"/">> \o b

\* os.path.basename (posixpath)
basename(p) == SubSeq(p, rfind_sep(p, Len(p)) + 1, Len(p))

\* str.rfind("."): the position of the last dot, 0 when there is none.
RECURSIVE rfind_dot(_, _)
rfind_dot(p, i) ==
    IF i = 0 THEN 0
    ELSE IF p[i] = "." THEN i
    ELSE rfind_dot(p, i - 1)

\* os.path.splitext: the extension starts at the last dot of the last
\* component, unless only dots precede it there.
splitext(p) ==
    LET sep == rfind_sep(p, Len(p))
        dot == rfind_dot(p, Len(p))
    IN  IF dot > sep /\ \E k \in (sep + 1)..(dot - 1) : p[k] # "."
        THEN <<SubSeq(p, 1, dot - 1), SubSeq(p, dot, Len(p))>>
        ELSE <<p, <<>>>>

\* f" ({counter})"
CounterSuffix(counter) == <<" (", ToString(counter), ")">>

\* p lies inside the directory tree rooted at d.
IsUnder(p, d) ==
    /\ Len(p) > Len(d) + 1
    /\ SubSeq(p, 1, Len(d)) = d
    /\ p[Len(d) + 1] = "/"

\* The filesystem as a value: existing paths and which of them are dirs.
Fs(d, dd) == [disk |-> d, dirs |-> dd]

isdir(F, p) == p \in F.disk /\ p \in F.dirs

\* os.rename / shutil.rmtree / os.remove act on a path and all below it.
Subtree(F, p) == {p} \cup {x \in F.disk : IsUnder(x, p)}

os_rename(F, src, dst) ==
    LET moved == Subtree(F, src)
        to(x) == dst \o SubSeq(x, Len(src) + 1, Len(x))
    IN  Fs((F.disk \ moved) \cup {to(x) : x \in moved},
           (F.dirs \ moved) \cup {to(x) : x \in moved \cap F.dirs})

\* os.rename raises OSError when the target's directory is missing or the
\* target lies inside the source.
os_rename_fails(F, src, dst) ==
    \/ ~isdir(F, dirname(dst))
    \/ IsUnder(dst, src)

FileResult(F, value) == [fs |-> F, ret |-> value]

\* The first free name among name, "base (1)ext", "base (2)ext", ...
RECURSIVE unique_file_path(_, _, _, _)
unique_file_path(F, parent_directory, file_name, counter) ==
    LET candidate ==
            IF counter = 0 THEN join(parent_directory, file_name)
            ELSE join(parent_directory,
                      splitext(file_name)[1] \o CounterSuffix(counter)
                          \o splitext(file_name)[2])
    IN  IF exists(F.disk, candidate)
        THEN unique_file_path(F, parent_directory, file_name, counter + 1)
        ELSE candidate

RECURSIVE unique_folder_path(_, _, _, _)
unique_folder_path(F, parent_directory, folder_name, counter) ==
    LET candidate ==
            IF counter = 0 THEN join(parent_directory, folder_name)
            ELSE join(parent_directory,
                      folder_name \o CounterSuffix(counter))
    IN  IF exists(F.disk, candidate)
        THEN unique_folder_path(F, parent_directory, folder_name,
                                counter + 1)
        ELSE candidate

create_new_file(F, parent_directory, file_name) ==
    IF ~isdir(F, parent_directory) THEN FileResult(F, NoneValue)
    ELSE LET new_file_path ==
                 unique_file_path(F, parent_directory, file_name, 0)
         IN  IF ~isdir(F, dirname(new_file_path))
             THEN FileResult(F, NoneValue)
             ELSE FileResult(Fs(F.disk \cup {new_file_path}, F.dirs),
                             new_file_path)

create_new_folder(F, parent_directory, folder_name) ==
    IF ~isdir(F, parent_directory) THEN FileResult(F, NoneValue)
    ELSE LET new_folder_path ==
                 unique_folder_path(F, parent_directory, folder_name, 0)
         IN  FileResult(Fs(F.disk \cup {new_folder_path},
                           F.dirs \cup {new_folder_path}),
                        new_folder_path)

has_invalid_chars(new_name) ==
    \E k \in 1..Len(new_name) : new_name[k] \in InvalidChars

\* rename_item without the check that protects an existing target.
rename_item_overwrite(F, item_path, new_name) ==
    IF ~exists(F.disk, item_path) THEN FileResult(F, NoneValue)
    ELSE LET parent_directory == dirname(item_path)
             new_path == join(parent_directory, new_name)
         IN  IF has_invalid_chars(new_name)
             THEN FileResult(F, NoneValue)
             ELSE IF os_rename_fails(F, item_path, new_path)
                  THEN FileResult(F, NoneValue)
             ELSE FileResult(os_rename(F, item_path, new_path), new_path)

rename_item(F, item_path, new_name) ==
    IF ~exists(F.disk, item_path) THEN FileResult(F, NoneValue)
    ELSE LET parent_directory == dirname(item_path)
             new_path == join(parent_directory, new_name)
         IN  IF exists(F.disk, new_path) THEN FileResult(F, NoneValue)
             ELSE IF has_invalid_chars(new_name)
                  THEN FileResult(F, NoneValue)
             ELSE IF os_rename_fails(F, item_path, new_path)
                  THEN FileResult(F, NoneValue)
             ELSE FileResult(os_rename(F, item_path, new_path), new_path)

delete_item(F, item_path) ==
    IF ~exists(F.disk, item_path) THEN FileResult(F, FALSE)
    ELSE FileResult(Fs(F.disk \ Subtree(F, item_path),
                       F.dirs \ Subtree(F, item_path)),
                    TRUE)

----------------------------------------------------------------------------
(* Commands: records of the fields of the Command objects. a and b are the *)
(* constructor arguments (old_path and new_name, or parent_dir and the     *)
(* file or folder name); result is new_path or created_path.               *)

NewCommand(id, kind, a, b) ==
    [id |-> id, kind |-> kind, a |-> a, b |-> b, result |-> NoneValue,
     last_call |-> "none", alternated |-> TRUE]

\* The object after a call of its do() or undo(): last_call is the method
\* called last, and alternated says that so far the first call was do()
\* and no method was called twice in a row.
Called(c, method) ==
    [c EXCEPT !.last_call = method,
              !.alternated = /\ @
                             /\ IF method = "do" THEN c.last_call # "do"
                                ELSE c.last_call = "do"]

\* "if self.new_path:" / "if self.created_path"
truthy(value) == value # NoneValue /\ value # EmptyStr

CommandResult(F, c, error) == [fs |-> F, c |-> c, err |-> error]

RenameCommand_do(F, c) ==
    LET r == rename_item(F, c.a, c.b)
    IN  CommandResult(r.fs, [c EXCEPT !.result = r.ret], NoError)

RenameCommand_undo(F, c) ==
    IF truthy(c.result)
    THEN LET old_name == basename(c.a)
         IN  CommandResult(rename_item(F, c.result, old_name).fs, c, NoError)
    ELSE CommandResult(F, c, NoError)

CreateFileCommand_do(F, c) ==
    LET r == create_new_file(F, c.a, c.b)
    IN  CommandResult(r.fs, [c EXCEPT !.result = r.ret], NoError)

CreateFolderCommand_do(F, c) ==
    LET r == create_new_folder(F, c.a, c.b)
    IN  CommandResult(r.fs, [c EXCEPT !.result = r.ret], NoError)

\* CreateFileCommand.undo and CreateFolderCommand.undo have the same body.
CreateCommand_undo(F, c) ==
    IF truthy(c.result) /\ exists(F.disk, c.result)
    THEN CommandResult(delete_item(F, c.result).fs, c, NoError)
    ELSE CommandResult(F, c, NoError)

\* The base class: do() and undo() raise NotImplementedError.
Command_do(F, c) == CommandResult(F, c, NotImplementedError)
Command_undo(F, c) == CommandResult(F, c, NotImplementedError)

\* command.do() and command.undo(), dispatched on the class.
do(F, c) ==
    LET called == Called(c, "do")
    IN  CASE c.kind = "RenameCommand" -> RenameCommand_do(F, called)
          [] c.kind = "CreateFileCommand" -> CreateFileCommand_do(F, called)
          [] c.kind = "CreateFolderCommand" ->
                 CreateFolderCommand_do(F, called)
          [] OTHER -> Command_do(F, called)

undo(F, c) ==
    LET called == Called(c, "undo")
    IN  CASE c.kind = "RenameCommand" -> RenameCommand_undo(F, called)
          [] c.kind = "CreateFileCommand" -> CreateCommand_undo(F, called)
          [] c.kind = "CreateFolderCommand" -> CreateCommand_undo(F, called)
          [] OTHER -> Command_undo(F, called)

----------------------------------------------------------------------------
(* UndoManager *)

Last(stack) == stack[Len(stack)]
Front(stack) == SubSeq(stack, 1, Len(stack) - 1)

ManagerResult(F, u, r, error) ==
    [fs |-> F, undo_stack |-> u, redo_stack |-> r, err |-> error]

\* push, line 25: self._undo_stack.append(command), put at the wrong end.
push_append_front(stack, command) == <<command>> \o stack

\* push, line 25: self._undo_stack.append(command)
push_append(stack, command) == Append(stack, command)

\* push, line 26, leaving the redo stack as it is.
push_clear_skip(stack) == stack

\* push, line 26: self._redo_stack.clear()
push_clear(stack) == <<>>

\* push, line 27, taking the command off the stack again when do() raises.
push_do_rollback(F, u, r) ==
    LET d == do(F, Last(u))
    IN  IF d.err # NoError THEN ManagerResult(d.fs, Front(u), r, d.err)
        ELSE ManagerResult(d.fs, [u EXCEPT ![Len(u)] = d.c], r, d.err)

\* push, line 27: command.do(), on the object that is already on the stack.
push_do(F, u, r) ==
    LET d == do(F, Last(u))
    IN  ManagerResult(d.fs, [u EXCEPT ![Len(u)] = d.c], r, d.err)

\* undo that pops without looking whether the stack is empty.
UndoManager_undo_unguarded(F, u, r) ==
    IF u = <<>> THEN ManagerResult(F, u, r, "IndexError")
    ELSE LET d == undo(F, Last(u))
         IN  IF d.err # NoError THEN ManagerResult(d.fs, Front(u), r, d.err)
             ELSE ManagerResult(d.fs, Front(u), Append(r, d.c), NoError)

UndoManager_undo(F, u, r) ==
    IF u = <<>> THEN ManagerResult(F, u, r, NoError)
    ELSE LET d == undo(F, Last(u))
         IN  IF d.err # NoError THEN ManagerResult(d.fs, Front(u), r, d.err)
             ELSE ManagerResult(d.fs, Front(u), Append(r, d.c), NoError)

\* redo that moves the command back without calling its do().
UndoManager_redo_no_do(F, u, r) ==
    IF r = <<>> THEN ManagerResult(F, u, r, NoError)
    ELSE ManagerResult(F, Append(u, Last(r)), Front(r), NoError)

UndoManager_redo(F, u, r) ==
    IF r = <<>> THEN ManagerResult(F, u, r, NoError)
    ELSE LET d == do(F, Last(r))
         IN  IF d.err # NoError THEN ManagerResult(d.fs, u, Front(r), d.err)
             ELSE ManagerResult(d.fs, Append(u, d.c), Front(r), NoError)

can_undo(u) == Len(u) > 0
can_redo(r) == Len(r) > 0

----------------------------------------------------------------------------
(* The state machine of the UndoManager. push is three steps, one per line *)
(* of its body, so that the state in which do() runs can be observed; no   *)
(* other call starts before push has finished.                             *)

Snapshot == [disk |-> disk, dirs |-> dirs, undo_stack |-> undo_stack,
             redo_stack |-> redo_stack]

UndoCall(name, id) == [name |-> name, command |-> id]

PathA(name) == join(DirA, name)
NewFolder == <<"New Folder">>

\* The commands the callers construct.
CommandArgs ==
    {<<"RenameCommand", PathA(OldTxt), NewTxt>>,
     <<"RenameCommand", PathA(OldTxt), QueryName>>,
     <<"RenameCommand", PathA(QueryName), NewTxt>>,
     <<"RenameCommand", PathA(NewFolder), OldTxt>>,
     <<"CreateFileCommand", DirA, NewTxt>>,
     <<"CreateFileCommand", PathA(NewFolder), OldTxt>>,
     <<"CreateFolderCommand", DirA, NewFolder>>,
     <<"Command", EmptyStr, EmptyStr>>}

\* The files found in /a when the program starts.
InitialFiles ==
    {{PathA(OldTxt)},
     {PathA(OldTxt), PathA(NewTxt)},
     {PathA(QueryName)}}

PushAppend ==
    \E args \in CommandArgs :
        /\ pc = Idle
        /\ next_id < MaxCommands
        /\ undo_stack' = push_append(undo_stack,
               NewCommand(next_id, args[1], args[2], args[3]))
        /\ next_id' = next_id + 1
        /\ pc' = "push:26"
        /\ pre' = Snapshot
        /\ op' = UndoCall("push", next_id)
        /\ ret' = NoneValue
        /\ err' = NoError
        /\ UNCHANGED <<disk, dirs, redo_stack, historyVars, pinnedVars,
                       events>>

PushClear ==
    /\ pc = "push:26"
    /\ redo_stack' = push_clear(redo_stack)
    /\ pc' = "push:27"
    /\ UNCHANGED <<disk, dirs, undo_stack, next_id, pre, op, ret, err,
                   historyVars, pinnedVars, events>>

PushDo ==
    /\ pc = "push:27"
    /\ LET r == push_do(Fs(disk, dirs), undo_stack, redo_stack)
       IN  /\ disk' = r.fs.disk
           /\ dirs' = r.fs.dirs
           /\ undo_stack' = r.undo_stack
           /\ redo_stack' = r.redo_stack
           /\ err' = r.err
    /\ pc' = Idle
    /\ UNCHANGED <<next_id, pre, op, ret, historyVars, pinnedVars, events>>

Undo ==
    /\ pc = Idle
    /\ LET r == UndoManager_undo(Fs(disk, dirs), undo_stack, redo_stack)
       IN  /\ disk' = r.fs.disk
           /\ dirs' = r.fs.dirs
           /\ undo_stack' = r.undo_stack
           /\ redo_stack' = r.redo_stack
           /\ err' = r.err
    /\ pre' = Snapshot
    /\ op' = UndoCall("undo", -1)
    /\ ret' = NoneValue
    /\ UNCHANGED <<pc, next_id, historyVars, pinnedVars, events>>

Redo ==
    /\ pc = Idle
    /\ LET r == UndoManager_redo(Fs(disk, dirs), undo_stack, redo_stack)
       IN  /\ disk' = r.fs.disk
           /\ dirs' = r.fs.dirs
           /\ undo_stack' = r.undo_stack
           /\ redo_stack' = r.redo_stack
           /\ err' = r.err
    /\ pre' = Snapshot
    /\ op' = UndoCall("redo", -1)
    /\ ret' = NoneValue
    /\ UNCHANGED <<pc, next_id, historyVars, pinnedVars, events>>

CanUndo ==
    /\ pc = Idle
    /\ pre' = Snapshot
    /\ op' = UndoCall("can_undo", -1)
    /\ ret' = can_undo(undo_stack)
    /\ err' = NoError
    /\ UNCHANGED <<disk, dirs, undo_stack, redo_stack, pc, next_id,
                   historyVars, pinnedVars, events>>

CanRedo ==
    /\ pc = Idle
    /\ pre' = Snapshot
    /\ op' = UndoCall("can_redo", -1)
    /\ ret' = can_redo(redo_stack)
    /\ err' = NoError
    /\ UNCHANGED <<disk, dirs, undo_stack, redo_stack, pc, next_id,
                   historyVars, pinnedVars, events>>

InitUndo ==
    /\ \E files \in InitialFiles :
          /\ disk = {Root, DirA} \cup files
          /\ dirs = {Root, DirA}
    /\ InitUndoManager
    /\ op = UndoCall("__init__", -1)
    /\ ret = NoneValue
    /\ err = NoError
    /\ tab_states = EmptyDict
    /\ pre_index = -1
    /\ InitPinnedManager
    /\ InitPinnedPanel
    /\ InitTabManagers

NextUndo ==
    \/ PushAppend
    \/ PushClear
    \/ PushDo
    \/ Undo
    \/ Redo
    \/ CanUndo
    \/ CanRedo

SpecUndo == InitUndo /\ [][NextUndo]_vars

----------------------------------------------------------------------------
(* Properties of the UndoManager *)

RenameCreateKinds ==
    {"RenameCommand", "CreateFileCommand", "CreateFolderCommand"}

OnStack(stack, id) == \E k \in 1..Len(stack) : stack[k].id = id

OnlyRenameCreate(stack) ==
    \A k \in 1..Len(stack) : stack[k].kind \in RenameCreateKinds

\* C11: when push(c) has finished, whatever the two stacks held, the redo
\* stack is empty, can_redo() is false and c is the last element of the
\* undo stack.
C11_PushClearsRedo ==
    (pc = Idle /\ op.name = "push")
    => /\ redo_stack = <<>>
       /\ ~can_redo(redo_stack)
       /\ undo_stack # <<>>
       /\ Last(undo_stack).id = op.command

\* push has finished on a manager whose two stacks were both non-empty.
C11_Witness ==
    /\ pc = Idle
    /\ op.name = "push"
    /\ pre.redo_stack # <<>>
    /\ pre.undo_stack # <<>>
    /\ Last(undo_stack).id = op.command

\* C12: undo() on an empty undo stack and redo() on an empty redo stack
\* change neither stack (so no command ran) nor the filesystem, and raise
\* nothing.
C12_EmptyStackNoOp ==
    [][(\/ op'.name = "undo" /\ undo_stack = <<>>
        \/ op'.name = "redo" /\ redo_stack = <<>>)
       => /\ err' = NoError
          /\ UNCHANGED <<disk, dirs, undo_stack, redo_stack>>
      ]_vars

\* undo() was called with nothing to undo while there was something to redo.
C12_Witness ==
    /\ op.name = "undo"
    /\ pre.undo_stack = <<>>
    /\ pre.redo_stack # <<>>
    /\ redo_stack = pre.redo_stack
    /\ err = NoError

\* C13: with only Rename and Create commands on the stacks, undo() followed
\* at once by redo() restores the filesystem, the stacks and the result
\* path recorded in every command.
C13_UndoRedoRoundTrip ==
    [][(/\ op.name = "undo"
        /\ pre.undo_stack # <<>>
        /\ OnlyRenameCreate(pre.undo_stack)
        /\ OnlyRenameCreate(pre.redo_stack)
        /\ op'.name = "redo")
       => /\ disk' = pre.disk
          /\ dirs' = pre.dirs
          /\ undo_stack' = pre.undo_stack
          /\ redo_stack' = pre.redo_stack
      ]_vars

\* C14: in push, command.do() runs before the command is appended and
\* before the redo stack is cleared: while do() is about to run, the
\* command is not on the undo stack and the redo stack is as it was.
C14_DoBeforeAppend ==
    pc = "push:27"
    => /\ ~OnStack(undo_stack, op.command)
       /\ redo_stack = pre.redo_stack

\* C14 as the code has it: push appends the command, then clears the redo
\* stack, then calls do(); when do() is about to run the command is the
\* last element of the undo stack, not yet executed, and the redo stack is
\* empty.
C14_AppendClearDo ==
    /\ pc = "push:26"
       => /\ Last(undo_stack).id = op.command
          /\ Front(undo_stack) = pre.undo_stack
          /\ redo_stack = pre.redo_stack
          /\ disk = pre.disk
    /\ pc = "push:27"
       => /\ Last(undo_stack).id = op.command
          /\ Front(undo_stack) = pre.undo_stack
          /\ Last(undo_stack).result = NoneValue
          /\ redo_stack = <<>>
          /\ disk = pre.disk

\* do() is about to run in a push that found both stacks non-empty.
C14_Witness ==
    /\ pc = "push:27"
    /\ pre.redo_stack # <<>>
    /\ pre.undo_stack # <<>>
    /\ redo_stack = <<>>

\* C15: when do() raises in push, the exception reaches the caller, the
\* command is on the undo stack and the redo stack is empty; the next
\* undo() pops that command and calls its undo().
C15_RaisingDoIsRecorded ==
    [][/\ (pc = "push:27" /\ pc' = Idle /\ err' # NoError)
          => /\ Len(undo_stack') = Len(pre.undo_stack) + 1
             /\ Last(undo_stack').id = op.command
             /\ redo_stack' = <<>>
       /\ (/\ pc = Idle
           /\ op.name = "push"
           /\ err # NoError
           /\ op'.name = "undo")
          => /\ undo_stack' = Front(undo_stack)
             /\ err' = NotImplementedError
      ]_vars

\* A push whose do() raised has returned, with an older command below it.
C15_Witness ==
    /\ pc = Idle
    /\ op.name = "push"
    /\ err = NotImplementedError
    /\ Len(undo_stack) >= 2
    /\ Last(undo_stack).id = op.command

\* C16: push(c) of a Rename or Create command whose do() succeeded,
\* followed at once by undo(), leaves the existing paths as they were
\* before the push.
C16_PushUndoRestores ==
    [][(/\ pc = Idle
        /\ op.name = "push"
        /\ Last(undo_stack).kind \in RenameCreateKinds
        /\ truthy(Last(undo_stack).result)
        /\ op'.name = "undo")
       => /\ disk' = pre.disk
          /\ dirs' = pre.dirs
      ]_vars

----------------------------------------------------------------------------
(* Part 3: PinnedManager. Each method is an operator on the manager's      *)
(* state: the two sets, the content of the pinned file, and the writes and *)
(* signals of the call so far.                                             *)

Pm(pinned, favorites, file, ev) ==
    [pinned_items |-> pinned, favorite_items |-> favorites,
     pinned_file |-> file, events |-> ev]

\* list(a_set): the elements in the order Python happens to iterate them.
RECURSIVE list(_)
list(S) ==
    IF S = {} THEN <<>>
    ELSE LET x == CHOOSE y \in S : TRUE
         IN  <<x>> \o list(S \ {x})

\* set(a_list)
set(l) == {l[k] : k \in 1..Len(l)}

\* The JSON values found in the pinned file.
JsonDict(pinned_list, favorites_list) ==
    [format |-> "dict", pinned |-> pinned_list, favorites |-> favorites_list]
JsonList(items) == [format |-> "list", pinned |-> items, favorites |-> <<>>]
JsonOther == [format |-> "str", pinned |-> <<>>, favorites |-> <<>>]

\* load_pinned_items whose old-format branch leaves the favorites alone.
load_pinned_items_keep_favorites(P) ==
    IF P.pinned_file = NoFile THEN P
    ELSE LET data == P.pinned_file
         IN  IF data.format \in {"list", "dict"}
             THEN [P EXCEPT !.pinned_items = set(data.pinned),
                            !.favorite_items =
                                IF data.format = "dict"
                                THEN set(data.favorites) ELSE @]
             ELSE P

load_pinned_items(P) ==
    IF P.pinned_file = NoFile THEN P
    ELSE LET data == P.pinned_file
         IN  IF data.format = "list"
             THEN [P EXCEPT !.pinned_items = set(data.pinned),
                            !.favorite_items = {}]
             ELSE IF data.format = "dict"
             THEN [P EXCEPT !.pinned_items = set(data.pinned),
                            !.favorite_items = set(data.favorites)]
             ELSE P

save_pinned_items(P) ==
    [P EXCEPT !.pinned_file = JsonDict(list(P.pinned_items),
                                       list(P.favorite_items)),
              !.events = Append(@, "save")]

\* self.pinned_items_updated.emit()
emit(P) == [P EXCEPT !.events = Append(@, "emit")]

\* add_pinned_item that saves and emits also when the path is pinned already.
add_pinned_item_always_save(P, d, item_path) ==
    IF ~exists(d, item_path) THEN P
    ELSE emit(save_pinned_items(
             [P EXCEPT !.pinned_items = @ \cup {item_path}]))

add_pinned_item(P, d, item_path) ==
    IF ~exists(d, item_path) THEN P
    ELSE IF item_path \notin P.pinned_items
    THEN emit(save_pinned_items(
             [P EXCEPT !.pinned_items = @ \cup {item_path}]))
    ELSE P

\* remove_pinned_item that leaves the favorites alone.
remove_pinned_item_no_cascade(P, item_path) ==
    IF item_path \in P.pinned_items
    THEN emit(save_pinned_items(
             [P EXCEPT !.pinned_items = @ \ {item_path}]))
    ELSE P

remove_pinned_item(P, item_path) ==
    IF item_path \in P.pinned_items
    THEN emit(save_pinned_items(
             [P EXCEPT !.pinned_items = @ \ {item_path},
                       !.favorite_items = @ \ {item_path}]))
    ELSE P

\* favorite_item without the check that the path exists.
favorite_item_unchecked(P, d, item_path) ==
    LET P1 == IF item_path \notin P.pinned_items
              THEN add_pinned_item(P, d, item_path)
              ELSE P
    IN  IF item_path \notin P1.favorite_items
        THEN emit(save_pinned_items(
                 [P1 EXCEPT !.favorite_items = @ \cup {item_path}]))
        ELSE P1

\* favorite_item that does not pin the path first.
favorite_item_no_autopin(P, d, item_path) ==
    IF ~exists(d, item_path) THEN P
    ELSE IF item_path \notin P.favorite_items
         THEN emit(save_pinned_items(
                  [P EXCEPT !.favorite_items = @ \cup {item_path}]))
         ELSE P

favorite_item(P, d, item_path) ==
    IF ~exists(d, item_path) THEN P
    ELSE LET P1 == IF item_path \notin P.pinned_items
                   THEN add_pinned_item(P, d, item_path)
                   ELSE P
         IN  IF item_path \notin P1.favorite_items
             THEN emit(save_pinned_items(
                      [P1 EXCEPT !.favorite_items = @ \cup {item_path}]))
             ELSE P1

unfavorite_item(P, item_path) ==
    IF item_path \in P.favorite_items
    THEN emit(save_pinned_items(
             [P EXCEPT !.favorite_items = @ \ {item_path}]))
    ELSE P

is_pinned(P, item_path) == item_path \in P.pinned_items
is_favorite(P, item_path) == item_path \in P.favorite_items

----------------------------------------------------------------------------
(* The state machine of the PinnedManager *)

\* The paths callers pin and favorite: /b, /b/c and the relative path c.
PinPaths == {DirB, DirBC, RelC}

\* Pinned files written by another program or an older version.
ForeignFiles ==
    {JsonList(<<DirB, DirBC>>),
     JsonDict(<<DirB>>, <<DirBC>>),
     JsonDict(<<DirB, DirB>>, <<DirB>>),
     JsonOther}

\* The manager at the start of a call.
PmNow == Pm(pinned_items, favorite_items, pinned_file, <<>>)

PinnedSnapshot == [pinned_items |-> pinned_items,
                   favorite_items |-> favorite_items,
                   pinned_file |-> pinned_file,
                   disk |-> disk]

\* The effect of a call that leaves the manager in state P.
PinnedApply(call, P, value) ==
    /\ pinned_items' = P.pinned_items
    /\ favorite_items' = P.favorite_items
    /\ pinned_file' = P.pinned_file
    /\ events' = P.events
    /\ op' = call
    /\ ret' = value
    /\ err' = NoError
    /\ pre' = PinnedSnapshot
    /\ UNCHANGED <<disk, dirs, undo_stack, redo_stack, pc, next_id,
                   historyVars, pinned_tree>>

AddPinnedItem ==
    \E p \in PinPaths :
        PinnedApply(Call("add_pinned_item", None, None, p),
                    add_pinned_item(PmNow, disk, p), NoneValue)

RemovePinnedItem ==
    \E p \in PinPaths :
        PinnedApply(Call("remove_pinned_item", None, None, p),
                    remove_pinned_item(PmNow, p), NoneValue)

FavoriteItem ==
    \E p \in PinPaths :
        PinnedApply(Call("favorite_item", None, None, p),
                    favorite_item(PmNow, disk, p), NoneValue)

UnfavoriteItem ==
    \E p \in PinPaths :
        PinnedApply(Call("unfavorite_item", None, None, p),
                    unfavorite_item(PmNow, p), NoneValue)

IsPinned ==
    \E p \in PinPaths :
        PinnedApply(Call("is_pinned", None, None, p), PmNow,
                    is_pinned(PmNow, p))

IsFavorite ==
    \E p \in PinPaths :
        PinnedApply(Call("is_favorite", None, None, p), PmNow,
                    is_favorite(PmNow, p))

LoadPinnedItems ==
    PinnedApply(Call("load_pinned_items", None, None, EmptyStr),
                load_pinned_items(PmNow), NoneValue)

\* A path that callers pin appears on disk, or disappears with all below it.
PinnedFsChange ==
    \E p \in PinPaths :
        /\ IF p \in disk
           THEN disk' = {x \in disk : x # p /\ ~IsUnder(x, p)}
           ELSE /\ dirname(p) = EmptyStr \/ dirname(p) \in disk
                /\ disk' = disk \cup {p}
        /\ op' = Call("fs_change", None, None, p)
        /\ ret' = NoneValue
        /\ err' = NoError
        /\ events' = <<>>
        /\ pre' = PinnedSnapshot
        /\ UNCHANGED <<dirs, undo_stack, redo_stack, pc, next_id,
                       historyVars, pinnedVars>>

\* Another program replaces the pinned file.
ForeignWrite ==
    \E data \in ForeignFiles :
        /\ pinned_file' = data
        /\ op' = Call("foreign_write", None, None, EmptyStr)
        /\ ret' = NoneValue
        /\ err' = NoError
        /\ events' = <<>>
        /\ pre' = PinnedSnapshot
        /\ UNCHANGED <<disk, dirs, undo_stack, redo_stack, pc, next_id,
                       historyVars, pinned_items, favorite_items,
                       pinned_tree>>

InitPinned ==
    /\ InitPinnedManager
    /\ InitPinnedPanel
    /\ InitTabManagers
    /\ disk = {Root}
    /\ dirs = {Root}
    /\ op = Call("__init__", None, None, EmptyStr)
    /\ ret = NoneValue
    /\ err = NoError
    /\ tab_states = EmptyDict
    /\ pre_index = -1
    /\ undo_stack = <<>>
    /\ redo_stack = <<>>
    /\ pc = Idle
    /\ next_id = 0
    /\ pre = [pinned_items |-> {}, favorite_items |-> {},
              pinned_file |-> NoFile, disk |-> {Root}]

\* The four mutating calls and the queries, on a manager that started with
\* no pinned file.
NextPinned ==
    \/ AddPinnedItem
    \/ RemovePinnedItem
    \/ FavoriteItem
    \/ UnfavoriteItem
    \/ IsPinned
    \/ IsFavorite
    \/ PinnedFsChange

SpecPinned == InitPinned /\ [][NextPinned]_vars

\* The same with a pinned file that other programs write and the manager
\* loads.
NextPinnedLoad ==
    \/ NextPinned
    \/ LoadPinnedItems
    \/ ForeignWrite

SpecPinnedLoad == InitPinned /\ [][NextPinnedLoad]_vars

\* The program is started again: __init__ empties the two sets and loads
\* the pinned file.
PinnedManager__init__(P) ==
    load_pinned_items(Pm({}, {}, P.pinned_file, <<>>))

Restart ==
    PinnedApply(Call("__init__", None, None, EmptyStr),
                PinnedManager__init__(PmNow), NoneValue)

NextPinnedRestart ==
    \/ NextPinnedLoad
    \/ Restart

SpecPinnedRestart == InitPinned /\ [][NextPinnedRestart]_vars

----------------------------------------------------------------------------
(* Properties of the PinnedManager *)

\* The path the last call was given.
CalledPath == op.path

\* C17 as stated: for all paths p, after favorite_item(p) returns, p is
\* pinned and p is a favorite.
C17_FavoriteAlwaysPins ==
    op.name = "favorite_item"
        => /\ is_pinned(PmNow, CalledPath)
           /\ is_favorite(PmNow, CalledPath)

\* C17, amended: after favorite_item(p) on a path that exists on disk at the
\* call, p is pinned and p is a favorite; on a path that does not exist the
\* call changes neither set, writes nothing and emits nothing.
C17_FavoriteExistingPins ==
    op.name = "favorite_item"
        => IF exists(pre.disk, CalledPath)
           THEN /\ is_pinned(PmNow, CalledPath)
                /\ is_favorite(PmNow, CalledPath)
           ELSE /\ pinned_items = pre.pinned_items
                /\ favorite_items = pre.favorite_items
                /\ pinned_file = pre.pinned_file
                /\ events = <<>>

\* favorite_item on an existing path that was not pinned has pinned it and
\* made it a favorite.
C17_Witness ==
    /\ op.name = "favorite_item"
    /\ exists(pre.disk, CalledPath)
    /\ CalledPath \notin pre.pinned_items
    /\ CalledPath \in pinned_items
    /\ CalledPath \in favorite_items
    /\ events = <<"save", "emit", "save", "emit">>

\* C18 as stated: for all paths p and every state of the manager, loaded
\* ones included, after remove_pinned_item(p) returns p is neither a
\* favorite nor pinned.
C18_UnpinAlwaysCascades ==
    op.name = "remove_pinned_item"
        => /\ ~is_favorite(PmNow, CalledPath)
           /\ ~is_pinned(PmNow, CalledPath)

\* C18, amended: after remove_pinned_item(p), p is not pinned; if p was
\* pinned at the call, p is not a favorite either; if p was not pinned the
\* call changes nothing, so a favorite that a loaded file lists without
\* pinning it stays a favorite.
C18_UnpinCascadesWhenPinned ==
    op.name = "remove_pinned_item"
        => /\ ~is_pinned(PmNow, CalledPath)
           /\ IF CalledPath \in pre.pinned_items
              THEN ~is_favorite(PmNow, CalledPath)
              ELSE /\ pinned_items = pre.pinned_items
                   /\ favorite_items = pre.favorite_items
                   /\ pinned_file = pre.pinned_file
                   /\ events = <<>>

\* In a loaded state whose favorites are not all pinned, a pinned favorite
\* was removed and lost both marks.
C18_Witness ==
    /\ op.name = "remove_pinned_item"
    /\ ~(pre.favorite_items \subseteq pre.pinned_items)
    /\ CalledPath \in pre.pinned_items
    /\ CalledPath \in pre.favorite_items
    /\ CalledPath \notin favorite_items
    /\ CalledPath \notin pinned_items

\* C19: starting from two empty sets, after any sequence of
\* add_pinned_item, remove_pinned_item, favorite_item and unfavorite_item
\* calls, with paths appearing and disappearing on disk between the calls,
\* favorite_items is a subset of pinned_items.
C19_FavoritesSubsetOfPinned == favorite_items \subseteq pinned_items

\* A favorite that is no longer on disk, after one of the four calls.
C19_Witness ==
    /\ op.name \in {"add_pinned_item", "remove_pinned_item",
                    "favorite_item", "unfavorite_item"}
    /\ \E p \in favorite_items : ~exists(disk, p)
    /\ pinned_items # favorite_items

----------------------------------------------------------------------------
(* Part 4: the display tree of the PinnedPanel. The tree is a list of      *)
(* nodes in the order they were created; node 1 is the "Favorites" heading *)
(* and node 2 the "Pinned Items" heading.                                  *)

DirBCD == <<"/", "b", "/", "c", "/", "d">>

Indices(T) == 1..Len(T.nodes)

\* The children of node n (the top-level items for n = 0) in sibling order.
RECURSIVE InStampOrder(_, _)
InStampOrder(T, S) ==
    IF S = {} THEN <<>>
    ELSE LET first == CHOOSE i \in S :
                 \A j \in S : T.nodes[i].stamp <= T.nodes[j].stamp
         IN  <<first>> \o InStampOrder(T, S \ {first})

Children(T, n) ==
    InStampOrder(T, {i \in Indices(T) : T.nodes[i].parent = n})

\* _search_children: the item itself, then its children in order, depth
\* first; 0 stands for None.
RECURSIVE _search_children(_, _, _)
RECURSIVE search_items(_, _, _)
_search_children(T, item, path) ==
    IF T.nodes[item].path = path THEN item
    ELSE search_items(T, Children(T, item), path)

\* The loop over the items of one level: the first hit wins.
search_items(T, items, path) ==
    IF items = <<>> THEN 0
    ELSE LET found == _search_children(T, items[1], path)
         IN  IF found # 0 THEN found
             ELSE search_items(T, Tail(items), path)

find_item_by_path(T, path) == search_items(T, Children(T, 0), path)

\* QTreeWidgetItem(parent) with the path as its data; parent 0 is the tree
\* widget itself.
NewItem(T, path, parent) ==
    [nodes |-> Append(T.nodes, Node(path, parent, T.clock + 1)),
     clock |-> T.clock + 1]

_create_tree_item(T, d, path, parent) ==
    IF ~exists(d, path) THEN T
    ELSE NewItem(T, path, parent)

_create_favorite_item(T, d, path, parent) ==
    IF ~exists(d, path) THEN T
    ELSE NewItem(T, path, parent)

\* Detach the item and attach it as the last child of parent (the last
\* top-level item when parent is None).
_move_item_to_parent(T, item, parent) ==
    [nodes |-> [T.nodes EXCEPT ![item] = Node(@.path, parent, T.clock + 1)],
     clock |-> T.clock + 1]

\* The walk up from temp_path to the first pinned path.
RECURSIVE nearest_pinned_ancestor(_, _)
nearest_pinned_ancestor(pinned, temp_path) ==
    IF temp_path = EmptyStr THEN NoneValue
    ELSE IF temp_path \in pinned THEN temp_path
    ELSE LET new_temp == dirname(temp_path)
         IN  IF new_temp = temp_path THEN NoneValue
             ELSE nearest_pinned_ancestor(pinned, new_temp)

\* Step 5 of add_pinned_item_to_tree: every pinned path whose directory is
\* item_path, if it has a node, is moved under the node of item_path.
RECURSIVE reorganize_children(_, _, _)
reorganize_children(T, children, item_path) ==
    IF children = <<>> THEN T
    ELSE LET child_path == children[1]
             existing_child == find_item_by_path(T, child_path)
             T1 == IF dirname(child_path) = item_path /\ existing_child # 0
                   THEN _move_item_to_parent(
                            T, existing_child,
                            find_item_by_path(T, item_path))
                   ELSE T
         IN  reorganize_children(T1, Tail(children), item_path)

RECURSIVE add_pinned_item_to_tree(_, _, _, _)
add_pinned_item_to_tree(T, d, pinned_list, item_path) ==
    IF ~exists(d, item_path) THEN T
    ELSE
    LET ancestor == nearest_pinned_ancestor(set(pinned_list),
                                            dirname(item_path))
        \* 2) ensure the ancestor is in the tree
        T2 == IF ancestor # NoneValue /\ find_item_by_path(T, ancestor) = 0
              THEN add_pinned_item_to_tree(T, d, pinned_list, ancestor)
              ELSE T
        \* 3) the parent
        parent_item == IF ancestor # NoneValue
                       THEN find_item_by_path(T2, ancestor)
                       ELSE 0
        \* 4) find or create the item
        existing_item == find_item_by_path(T2, item_path)
        existing_parent == T2.nodes[existing_item].parent
        is_favorites == existing_parent = favorites_root
        T4 == IF existing_item # 0
              THEN IF existing_parent # 0 /\ existing_parent # parent_item
                   THEN IF is_favorites
                        THEN _create_tree_item(T2, d, item_path, parent_item)
                        ELSE IF parent_item # 0
                             THEN _move_item_to_parent(T2, existing_item,
                                                       parent_item)
                             ELSE T2
                   ELSE T2
              ELSE _create_tree_item(T2, d, item_path, parent_item)
    IN  \* 5) reorganize the children
        reorganize_children(T4, pinned_list, item_path)

RECURSIVE create_favorites(_, _, _)
create_favorites(T, d, favorite_list) ==
    IF favorite_list = <<>> THEN T
    ELSE create_favorites(
             _create_favorite_item(T, d, favorite_list[1], favorites_root),
             d, Tail(favorite_list))

RECURSIVE create_pinned(_, _, _, _)
create_pinned(T, d, pinned_list, rest) ==
    IF rest = <<>> THEN T
    ELSE create_pinned(
             add_pinned_item_to_tree(T, d, pinned_list, rest[1]),
             d, pinned_list, Tail(rest))

\* refresh_pinned_items: clear the tree, recreate the headings, then the
\* favorites, then the pinned items, each list in the order given.
refresh_pinned_items(d, pinned_list, favorite_list) ==
    create_pinned(create_favorites(Headings, d, favorite_list),
                  d, pinned_list, pinned_list)

\* The orders in which Python may iterate a set.
Orders(S) ==
    {l \in [1..Cardinality(S) -> S] : \A i, j \in DOMAIN l :
                                          i # j => l[i] # l[j]}

----------------------------------------------------------------------------
(* The state machine of the PinnedPanel: the panel's entry points call the *)
(* PinnedManager, whose pinned_items_updated signal is connected to        *)
(* refresh_pinned_items.                                                   *)

PanelPaths == {DirB, DirBC, DirBCD}

\* The slot runs at every emit; explicit says that the entry point calls
\* refresh_pinned_items itself once more.
RECURSIVE WithRefresh(_)
WithRefresh(ev) ==
    IF ev = <<>> THEN <<>>
    ELSE IF ev[1] = "emit"
         THEN <<"emit", "refresh">> \o WithRefresh(Tail(ev))
         ELSE <<ev[1]>> \o WithRefresh(Tail(ev))

PanelEvents(ev, explicit) ==
    IF explicit THEN Append(WithRefresh(ev), "refresh") ELSE WithRefresh(ev)

\* The effect of an entry point that leaves the manager in state P. Every
\* refresh rebuilds the tree from nothing, so the tree is that of the last
\* refresh, which sees the final sets.
PanelApply(call, P, explicit) ==
    /\ pinned_items' = P.pinned_items
    /\ favorite_items' = P.favorite_items
    /\ pinned_file' = P.pinned_file
    /\ events' = PanelEvents(P.events, explicit)
    /\ IF PanelEvents(P.events, explicit) = <<>>
       THEN pinned_tree' = pinned_tree
       ELSE \E pinned_list \in Orders(P.pinned_items),
               favorite_list \in Orders(P.favorite_items) :
                pinned_tree' = refresh_pinned_items(disk, pinned_list,
                                                    favorite_list)
    /\ op' = call
    /\ ret' = NoneValue
    /\ err' = NoError
    /\ pre' = PinnedSnapshot
    /\ UNCHANGED <<disk, dirs, undo_stack, redo_stack, pc, next_id,
                   historyVars>>

PinItem ==
    \E p \in PanelPaths :
        PanelApply(Call("pin_item", None, None, p),
                   add_pinned_item(PmNow, disk, p), FALSE)

UnpinItem ==
    \E p \in PanelPaths :
        PanelApply(Call("unpin_item", None, None, p),
                   remove_pinned_item(PmNow, p), FALSE)

PanelFavoriteItem ==
    \E p \in PanelPaths :
        PanelApply(Call("_favorite_item", None, None, p),
                   favorite_item(PmNow, disk, p), TRUE)

PanelUnfavoriteItem ==
    \E p \in PanelPaths :
        PanelApply(Call("_unfavorite_item", None, None, p),
                   unfavorite_item(PmNow, p), TRUE)

RefreshPinnedItems ==
    PanelApply(Call("refresh_pinned_items", None, None, EmptyStr),
               PmNow, TRUE)

\* A path of the panel appears on disk, or disappears with all below it.
PanelFsChange ==
    \E p \in PanelPaths :
        /\ IF p \in disk
           THEN disk' = {x \in disk : x # p /\ ~IsUnder(x, p)}
           ELSE /\ dirname(p) \in disk
                /\ disk' = disk \cup {p}
        /\ op' = Call("fs_change", None, None, p)
        /\ ret' = NoneValue
        /\ err' = NoError
        /\ events' = <<>>
        /\ pre' = PinnedSnapshot
        /\ UNCHANGED <<dirs, undo_stack, redo_stack, pc, next_id,
                       historyVars, pinnedVars>>

InitPanel == InitPinned

NextPanel ==
    \/ PinItem
    \/ UnpinItem
    \/ PanelFavoriteItem
    \/ PanelUnfavoriteItem
    \/ RefreshPinnedItems
    \/ PanelFsChange

SpecPanel == InitPanel /\ [][NextPanel]_vars

----------------------------------------------------------------------------
(* Properties of the display tree *)

\* Node i is the Favorites heading or lies below it.
RECURSIVE InFavorites(_, _)
InFavorites(T, i) ==
    \/ i = favorites_root
    \/ /\ T.nodes[i].parent # 0
       /\ InFavorites(T, T.nodes[i].parent)

\* The nodes that carry path p outside the Favorites grouping.
PinnedNodes(T, p) ==
    {i \in Indices(T) : T.nodes[i].path = p /\ ~InFavorites(T, i)}

\* The last call rebuilt the tree from the sets and the disk as they are.
Refreshed == events # <<>> /\ Last(events) = "refresh"

\* C21: after a rebuild every pinned path that exists on disk has exactly
\* one node outside the Favorites grouping, and that node hangs under the
\* node of its nearest pinned ancestor outside the Favorites grouping, or
\* is top-level when no ancestor is pinned; favorites included.
C21_TreePlacement ==
    Refreshed =>
        \A p \in pinned_items :
            exists(disk, p) =>
                /\ Cardinality(PinnedNodes(pinned_tree, p)) = 1
                /\ \A i \in PinnedNodes(pinned_tree, p) :
                       LET ancestor == nearest_pinned_ancestor(
                                           pinned_items, dirname(p))
                           parent == pinned_tree.nodes[i].parent
                       IN  IF ancestor = NoneValue THEN parent = 0
                           ELSE /\ parent # 0
                                /\ parent \in PinnedNodes(pinned_tree,
                                                          ancestor)

\* A node's path and whether it lies in the Favorites grouping.
NodeKey(T, i) ==
    IF i = 0 THEN <<"tree">>
    ELSE <<T.nodes[i].path, InFavorites(T, i)>>

Edge(T, i) == <<NodeKey(T, i), NodeKey(T, T.nodes[i].parent)>>

\* The parent/child relation of a tree: how many nodes of each kind hang
\* under each kind of parent.
Shape(T) ==
    LET edges == {Edge(T, i) : i \in Indices(T)}
    IN  [e \in edges |-> Cardinality({i \in Indices(T) : Edge(T, i) = e})]

\* C22: the parent/child relation of the rebuilt tree is the same for
\* every order in which the two sets are iterated, and so for every order
\* in which the paths were pinned.
C22_OrderIndependent ==
    Refreshed =>
        \A pinned_list \in Orders(pinned_items),
           favorite_list \in Orders(favorite_items) :
            Shape(refresh_pinned_items(disk, pinned_list, favorite_list))
                = Shape(pinned_tree)

\* C23: after a rebuild the Favorites grouping holds exactly one node per
\* favorite path that exists on disk, each directly under the heading and
\* without children, and nothing else hangs in the grouping.
C23_FavoritesFlat ==
    Refreshed =>
        /\ \A f \in favorite_items :
               exists(disk, f) =>
                   Cardinality({i \in Indices(pinned_tree) :
                       /\ pinned_tree.nodes[i].parent = favorites_root
                       /\ pinned_tree.nodes[i].path = f}) = 1
        /\ \A i \in Indices(pinned_tree) :
               (InFavorites(pinned_tree, i) /\ i # favorites_root)
                   => /\ pinned_tree.nodes[i].parent = favorites_root
                      /\ pinned_tree.nodes[i].path \in favorite_items

----------------------------------------------------------------------------
(* Persistence of the PinnedManager *)

\* The pinned file holds the two sets in the current format.
FileMatchesSets(file, pinned, favorites) ==
    /\ file.format = "dict"
    /\ set(file.pinned) = pinned
    /\ set(file.favorites) = favorites

----------------------------------------------------------------------------
(* Further properties of the TabHistoryManager *)

\* C28: migrate_history with the same widget as source and target, on a
\* widget that has an entry, leaves that entry as it was; migrate_history
\* from a source without an entry changes nothing.
C28_MigrateKeepsHistory ==
    [][\A s \in Widgets, t \in Widgets :
          (/\ op'.name = "migrate_history"
           /\ op'.widget = s
           /\ op'.target = t)
          => /\ (s = t /\ HasEntry(tab_states, s))
                => /\ HasEntry(tab_states', s)
                   /\ tab_states'[s] = tab_states[s]
             /\ ~HasEntry(tab_states, s) => tab_states' = tab_states
      ]_vars

\* C29: whenever go_up returns a path and appends it to the history, the
\* path differs from the one that was current before the call.
C29_GoUpMoves ==
    [][\A w \in Widgets :
          (/\ op'.name = "go_up"
           /\ op'.widget = w
           /\ ret' # EmptyStr)
          => ret' # get_current_path(tab_states, w)
      ]_vars

----------------------------------------------------------------------------
(* Further properties of the UndoManager *)

StackIds(stack) == {stack[k].id : k \in 1..Len(stack)}

\* The command's calls so far alternate and the last one was method.
InState(c, method) == c.alternated /\ c.last_call = method

\* C26: push calls do() once on a command that nothing was called on; from
\* then on its undo() and do() alternate. Whenever no call is running
\* every command on the undo stack was last done, every command on the
\* redo stack was last undone, and no command is on both stacks.
C26_DoUndoAlternate ==
    /\ \A k \in 1..Len(redo_stack) : InState(redo_stack[k], "undo")
    /\ \A k \in 1..Len(undo_stack) :
           IF pc # Idle /\ k = Len(undo_stack)
           THEN InState(undo_stack[k], "none")
           ELSE InState(undo_stack[k], "do")
    /\ StackIds(undo_stack) \cap StackIds(redo_stack) = {}
    /\ Cardinality(StackIds(undo_stack)) = Len(undo_stack)
    /\ Cardinality(StackIds(redo_stack)) = Len(redo_stack)

\* redo() has brought a command back while another is still undone.
C26_Witness ==
    /\ pc = Idle
    /\ op.name = "redo"
    /\ pre.redo_stack # <<>>
    /\ redo_stack # <<>>
    /\ undo_stack # <<>>
    /\ Last(undo_stack).id = Last(pre.redo_stack).id

\* The three ways the rename of command c fails that the caller can
\* foresee: the source is missing, the new name is taken or is invalid.
RenameFails(F, c) ==
    \/ ~exists(F.disk, c.a)
    \/ exists(F.disk, join(dirname(c.a), c.b))
    \/ has_invalid_chars(c.b)

\* C27: when the do() of a pushed RenameCommand fails, nothing is raised,
\* the filesystem is unchanged, new_path is None and the command stays on
\* the undo stack; an undo() of a RenameCommand whose new_path is None
\* changes nothing in the filesystem.
C27_FailedRenameRecorded ==
    [][/\ (/\ pc = "push:27"
           /\ pc' = Idle
           /\ Last(undo_stack).kind = "RenameCommand"
           /\ RenameFails(Fs(disk, dirs), Last(undo_stack)))
          => /\ err' = NoError
             /\ disk' = disk
             /\ dirs' = dirs
             /\ Len(undo_stack') = Len(undo_stack)
             /\ Last(undo_stack').id = op.command
             /\ Last(undo_stack').result = NoneValue
       /\ (/\ pc = Idle
           /\ op'.name = "undo"
           /\ undo_stack # <<>>
           /\ Last(undo_stack).kind = "RenameCommand"
           /\ Last(undo_stack).result = NoneValue)
          => /\ err' = NoError
             /\ disk' = disk
             /\ dirs' = dirs
      ]_vars

\* A rename whose new name was taken has been pushed and then undone, with
\* both files still in place.
C27_Witness ==
    /\ op.name = "undo"
    /\ pre.undo_stack # <<>>
    /\ Last(pre.undo_stack).kind = "RenameCommand"
    /\ Last(pre.undo_stack).result = NoneValue
    /\ exists(pre.disk, Last(pre.undo_stack).a)
    /\ exists(pre.disk, join(dirname(Last(pre.undo_stack).a),
                             Last(pre.undo_stack).b))
    /\ disk = pre.disk
    /\ redo_stack # <<>>

----------------------------------------------------------------------------
(* Part 5: TabManager.  A TabManager is a record of its tab list (the      *)
(* widgets in tab order), the index of the current tab (0-based, -1 when   *)
(* there is none), its TabHistoryManager's dictionary and the TabManager   *)
(* it was detached from.  tab_managers[1] is the one of the main window.   *)

\* The largest number of tab widgets alive at a time.
MaxTabs == 3

\* The largest number of TabManager objects (the main one and detached ones).
MaxManagers == 2

TabIds == 1..MaxTabs

\* The tab widgets alive in some TabManager.
LiveTabs(M) ==
    UNION {{M[m].tabs[k] : k \in 1..Len(M[m].tabs)} : m \in 1..Len(M)}

\* QTabWidget.count()
count(tm) == Len(tm.tabs)

\* QTabWidget.widget(index): None when index is out of range.
widget(tm, index) ==
    IF index >= 0 /\ index < count(tm) THEN tm.tabs[index + 1] ELSE None

\* QTabWidget.indexOf(widget): -1 when the widget is not a tab of tm.
indexOf(tm, w) ==
    IF \E k \in 1..count(tm) : tm.tabs[k] = w
    THEN (CHOOSE k \in 1..count(tm) : tm.tabs[k] = w) - 1
    ELSE -1

\* QTabWidget.setCurrentIndex(index): ignored when index is out of range.
setCurrentIndex(tm, index) ==
    IF index >= 0 /\ index < count(tm)
    THEN [tm EXCEPT !.current_index = index]
    ELSE tm

\* QTabWidget.insertTab(index, widget): an index out of range appends; the
\* first tab becomes current; a tab inserted at or before the current one
\* moves the current index along with the current tab.
insertTab(tm, index, w) ==
    LET n == count(tm)
        at == IF index < 0 \/ index > n THEN n ELSE index
    IN  [tm EXCEPT
           !.tabs = SubSeq(tm.tabs, 1, at) \o <<w>> \o SubSeq(tm.tabs, at + 1, n),
           !.current_index = IF n = 0 THEN 0
                             ELSE IF at <= tm.current_index
                                  THEN tm.current_index + 1
                                  ELSE tm.current_index]

\* QTabWidget.addTab(widget)
addTab(tm, w) == insertTab(tm, -1, w)

\* QTabWidget.removeTab(index): ignored when index is out of range; when the
\* current tab goes, the tab to its right becomes current, or the new last one.
removeTab(tm, index) ==
    LET n == count(tm)
    IN  IF index < 0 \/ index >= n THEN tm
        ELSE [tm EXCEPT
                !.tabs = SubSeq(tm.tabs, 1, index) \o SubSeq(tm.tabs, index + 2, n),
                !.current_index =
                    IF n = 1 THEN -1
                    ELSE IF index < tm.current_index THEN tm.current_index - 1
                    ELSE IF index = tm.current_index /\ index = n - 1
                         THEN index - 1
                    ELSE tm.current_index]

\* add_new_tab: tab_content is the QWidget the method constructs.
add_new_tab(tm, d, tab_content, root_path) ==
    IF root_path = NoneValue \/ ~exists(d, root_path)
    THEN [tm |-> tm, ret |-> NoneValue]
    ELSE LET index == count(tm)
             shown == setCurrentIndex(addTab(tm, tab_content), index)
             r == init_tab_history(shown.history_manager, tab_content, root_path)
         IN  IF r.err # NoError
             THEN [tm |-> shown, ret |-> NoneValue]
             ELSE [tm |-> [shown EXCEPT !.history_manager = r.ts],
                   ret |-> tab_content]

\* close_tab: split says whether the container's splitter holds two panes.
close_tab(tm, index, split) ==
    LET tab_widget == widget(tm, index)
        forgotten ==
            IF tab_widget # None
            THEN [tm EXCEPT !.history_manager =
                                remove_tab_history(@, tab_widget).ts]
            ELSE tm
    IN  IF ~tm.container THEN forgotten
        ELSE IF split THEN removeTab(forgotten, index)
        ELSE IF count(forgotten) > 1 THEN removeTab(forgotten, index)
        ELSE forgotten

\* detach_nested_tab on the TabManager M[self].
detach_nested_tab(M, self, index) ==
    IF index < 0 \/ index >= count(M[self]) THEN M
    ELSE LET detached_widget == widget(M[self], index)
             detached_tab_manager ==
                 addTab(TabManager__init__(self, FALSE), detached_widget)
         IN  Append([M EXCEPT ![self] = removeTab(@, index)],
                    setCurrentIndex(detached_tab_manager, 0))

\* reattach_tab on the TabManager M[self].
reattach_tab(M, self, index, original_tab_manager) ==
    IF index < 0 \/ index >= count(M[self]) THEN M
    ELSE LET tab_widget == widget(M[self], index)
             new_index == count(M[original_tab_manager])
         IN  [M EXCEPT
                ![self] = removeTab(@, index),
                ![original_tab_manager] =
                    setCurrentIndex(addTab(@, tab_widget), new_index)]

\* The target index _handle_same_widget_drop reads from the tab bar's drop
\* indicator, or works out from the tab under the drop position (tab_at, -1
\* for none) and the side of its centre the position is on.
drop_target_index(tm, drop_indicator_index, tab_at, before) ==
    IF drop_indicator_index >= 0 THEN drop_indicator_index
    ELSE IF tab_at < 0 THEN (IF before THEN 0 ELSE count(tm))
    ELSE IF before THEN tab_at
    ELSE tab_at + 1

\* Clamp an index to 0..count.
Clamp(tm, index) ==
    IF index < 0 THEN 0
    ELSE IF index > count(tm) THEN count(tm)
    ELSE index

\* _handle_same_widget_drop without the adjustment of the target index.
_handle_same_widget_drop_no_adjust(tm, w, target_index) ==
    LET current_index == indexOf(tm, w)
        target == Clamp(tm, target_index)
    IN  IF current_index < 0 THEN tm
        ELSE IF target = current_index THEN tm
        ELSE LET removed == removeTab(tm, current_index)
                 final == Clamp(removed, target)
             IN  setCurrentIndex(insertTab(removed, final, w), final)

_handle_same_widget_drop(tm, w, target_index) ==
    LET current_index == indexOf(tm, w)
        target == Clamp(tm, target_index)
    IN  IF current_index < 0 THEN tm
        ELSE IF target = current_index THEN tm
        ELSE LET removed == removeTab(tm, current_index)
                 adjusted == IF target > current_index
                             THEN target - 1 ELSE target
                 final == Clamp(removed, adjusted)
             IN  setCurrentIndex(insertTab(removed, final, w), final)

----------------------------------------------------------------------------
(* The TabManager state machine. *)

\* A call on TabManager number manager: the tab widget and the tab index it
\* is about (as they were when the call began) and the drop's target index.
TabCall(name, manager, w, index, target) ==
    [name |-> name, manager |-> manager, widget |-> w, index |-> index,
     target |-> target]

\* The root paths callers pass to add_new_tab: none, a directory that exists
\* and one that does not.
RootPathArgs == {NoneValue, Root, DirB}

TabApply(call, M, value) ==
    /\ tab_managers' = M
    /\ op' = call
    /\ ret' = value
    /\ err' = NoError
    /\ UNCHANGED <<tab_states, pre_index, disk, undoVars, pinnedVars, events>>

AddNewTab ==
    \E m \in 1..Len(tab_managers), root_path \in RootPathArgs,
       tab_content \in TabIds \ LiveTabs(tab_managers) :
        LET r == add_new_tab(tab_managers[m], disk, tab_content, root_path)
        IN  TabApply(TabCall("add_new_tab", m, tab_content, -1, -1),
                     [tab_managers EXCEPT ![m] = r.tm], r.ret)

CloseTab ==
    \E m \in 1..Len(tab_managers), index \in 0..MaxTabs, split \in BOOLEAN :
        TabApply(TabCall("close_tab", m, widget(tab_managers[m], index),
                         index, -1),
                 [tab_managers EXCEPT ![m] = close_tab(@, index, split)],
                 NoneValue)

DetachNestedTab ==
    \E m \in 1..Len(tab_managers), index \in 0..MaxTabs :
        /\ Len(tab_managers) < MaxManagers
        /\ index < count(tab_managers[m])
        /\ TabApply(TabCall("detach_nested_tab", m,
                            widget(tab_managers[m], index), index, -1),
                    detach_nested_tab(tab_managers, m, index), NoneValue)

ReattachTab ==
    \E m \in 1..Len(tab_managers), index \in 0..MaxTabs :
        /\ tab_managers[m].original_tab_manager # None
        /\ index < count(tab_managers[m])
        /\ TabApply(TabCall("reattach_tab", m,
                            widget(tab_managers[m], index), index, -1),
                    reattach_tab(tab_managers, m, index,
                                 tab_managers[m].original_tab_manager),
                    NoneValue)

SameWidgetDrop ==
    \E m \in 1..Len(tab_managers), w \in TabIds,
       drop_indicator_index \in -1..(MaxTabs + 1),
       tab_at \in -1..(MaxTabs - 1), before \in BOOLEAN :
        /\ tab_at < count(tab_managers[m])
        /\ drop_indicator_index >= 0 => (tab_at = -1 /\ before)
        /\ LET tm == tab_managers[m]
               target_index ==
                   drop_target_index(tm, drop_indicator_index, tab_at, before)
           IN  TabApply(TabCall("_handle_same_widget_drop", m, w,
                                indexOf(tm, w), target_index),
                        [tab_managers EXCEPT
                           ![m] = _handle_same_widget_drop(@, w, target_index)],
                        NoneValue)

InitTabs == InitHistory

\* Tabs are opened, closed, detached and reattached.
NextTabs ==
    \/ AddNewTab
    \/ CloseTab
    \/ DetachNestedTab
    \/ ReattachTab

SpecTabs == InitTabs /\ [][NextTabs]_vars

\* Tabs are opened, closed and dragged within their TabManager.
NextTabDrop ==
    \/ AddNewTab
    \/ CloseTab
    \/ SameWidgetDrop

SpecTabDrop == InitTabs /\ [][NextTabDrop]_vars

----------------------------------------------------------------------------
(* Properties of the TabManager. *)

\* The sequence s without the element w.
Without(s, w) == SelectSeq(s, LAMBDA x : x # w)

\* C25: a same-widget drop of the tab at current_index on a target index t
\* in 0..n of a TabManager with n tabs keeps the n tabs, keeps the other
\* tabs in their order, puts the moved tab at index t when t < current_index
\* and at index t-1 when t > current_index, and makes it the current tab;
\* a drop with t = current_index changes nothing.
C25_SameWidgetDropReorders ==
    [][(/\ op'.name = "_handle_same_widget_drop"
        /\ op'.index >= 0
        /\ op'.target \in 0..count(tab_managers[op'.manager]))
       => LET old == tab_managers[op'.manager]
              new == tab_managers'[op'.manager]
              t == op'.target
              place == IF t < op'.index THEN t ELSE t - 1
          IN  IF t = op'.index THEN tab_managers' = tab_managers
              ELSE /\ count(new) = count(old)
                   /\ Without(new.tabs, op'.widget) = Without(old.tabs, op'.widget)
                   /\ widget(new, place) = op'.widget
                   /\ new.current_index = place
                   /\ \A m \in 1..Len(tab_managers) :
                         m # op'.manager => tab_managers'[m] = tab_managers[m]
                   /\ Len(tab_managers') = Len(tab_managers)]_vars

\* The first of three tabs was dropped behind the last one and is now the
\* last and current tab.
C25_Witness ==
    /\ op.name = "_handle_same_widget_drop"
    /\ op.index = 0
    /\ op.target = 3
    /\ count(tab_managers[op.manager]) = 3
    /\ widget(tab_managers[op.manager], 2) = op.widget
    /\ tab_managers[op.manager].current_index = 2

\* C30: in every TabManager, a widget is a tab of it exactly when its history
\* manager holds an entry for the widget.
C30_TabsMatchHistory ==
    \A m \in 1..Len(tab_managers) :
        \A w \in TabIds :
            (indexOf(tab_managers[m], w) >= 0)
                <=> (_get_widget_id(w) \in DOMAIN tab_managers[m].history_manager)

====
